---------------------------- MODULE Spec2Model ----------------------------
(***************************************************************************)
(* A model of deckmaster's layout and font-fitting engine:                 *)
(*   - WidgetElement (band computation, segment drawing),                  *)
(*   - ButtonLayout and ScreenSegmentLayout (builder calls, CreateImage),  *)
(*   - maxFontSize (the two-phase linear font-size search),                *)
(*   - createBar and calculateIconSizeRatio,                               *)
(*   - the repaint requests of BrightnessWidget and the update flag, icon  *)
(*     choice and command dispatch of PulseAudioControlWidget.             *)
(*                                                                         *)
(* Specifications.  Spec: builder calls and CreateImage on one layout.     *)
(* SpecFail: CreateImage on layouts some of whose segments fail to draw.   *)
(* SpecRace: two CreateImage calls interleaved on one ButtonLayout.        *)
(* SpecFont: one text segment's draw, maxFontSize statement by statement.  *)
(* SpecCalc: the pure helpers applied to inputs from bounded sets.         *)
(* SpecBrightness: RequiresUpdate and Update of a BrightnessWidget while   *)
(* the brightness changes.  SpecPulseAudio: a PulseAudioControlWidget with *)
(* TriggerAction on one goroutine, RequiresUpdate and Update on another.   *)
(*                                                                         *)
(* Numbers.  Go's uint is modelled as a natural number modulo UintModulus  *)
(* and int(x) as its two's-complement reading.  Go's uint has 64 bits;     *)
(* the model keeps the wraparound at WordBits bits, all sizes it draws     *)
(* being far below either modulus.  float64 expressions are modelled by    *)
(* their IEEE-754 result, computed with integers (see Float64MulOfDiv100). *)
(* Font sizes are kept as integers in units of 0.7/dpi point, which makes  *)
(* the seed 1.4 * height * 72 / dpi and the step 0.7 exact.                *)
(***************************************************************************)
EXTENDS Integers, Sequences, FiniteSets, TLC

VARIABLES
    layout,     \* the Layout object: its kind, dpi and element slots
    image,      \* what the latest CreateImage call returned
    lastCall,   \* name of the latest call made on the layout
    fit,        \* the activation record of one maxFontSize call
    calc,       \* the activation record of one pure helper call
    race,       \* two CreateImage calls running on one layout at once
    widget      \* a BrightnessWidget or a PulseAudioControlWidget

vars == <<layout, image, lastCall, fit, calc, race, widget>>

-----------------------------------------------------------------------------
(* Bounds of the model *)

WordBits == 16
MaxSegments == 3
MaxBandHeight == 40
MaxBarLength == 30
MaxBarThickness == 3
MaxPercentage == 100
MaxRatioSegments == 50
MaxBoxWidth == 12
MaxBoxHeight == 10
MaxFailSegments == 2

-----------------------------------------------------------------------------
(* Go integer arithmetic *)

UintModulus == 2 ^ WordBits

\* uint(x): reduction to the word, also of a negative intermediate result
ToUint(x) == ((x % UintModulus) + UintModulus) % UintModulus

\* int(u) of a uint u: the same bits read as a signed number
ToInt(u) == IF u >= UintModulus \div 2 THEN u - UintModulus ELSE u

Min(a, b) == IF a < b THEN a ELSE b

Max(a, b) == IF a > b THEN a ELSE b

-----------------------------------------------------------------------------
(* float64 arithmetic, as far as the program uses it *)

RECURSIVE Pow2Mod(_, _)
\* 2^s mod m
Pow2Mod(s, m) == IF s = 0 THEN 1 % m ELSE (2 * Pow2Mod(s - 1, m)) % m

RECURSIVE Log2Floor(_, _)
\* the exponent a with 2^a <= num/den < 2^(a+1), for num > 0, den > 0
Log2Floor(num, den) ==
    IF num < den THEN Log2Floor(2 * num, den) - 1
    ELSE IF num >= 2 * den THEN Log2Floor(num, 2 * den) + 1
    ELSE 0

IsPow2(q) == q = 2 ^ Log2Floor(q, 1)

\* The sign and size of the rounding error of the double nearest to k/100:
\* fl(k/100) = k/100 + d/100 * 2^(a-52), with a = Log2Floor(k, 100) and
\* d in -49..49 (round to nearest; no tie can occur).
Float64Div100Error(k) ==
    LET a == Log2Floor(k, 100)
        r == (k * Pow2Mod(52 - a, 100)) % 100
    IN  IF r = 0 THEN 0 ELSE IF r < 50 THEN 0 - r ELSE 100 - r

\* int(fl(fl(k / 100.0) * p)) for naturals k and p: the truncated float64
\* product of the double nearest to k/100 with p.  Where k*p/100 is not an
\* integer it lies at least 1/100 from one and truncation is exact; where
\* it is an integer q, the product lands below q exactly when the quotient
\* was rounded down by more than half the spacing of the doubles below q.
Float64MulOfDiv100(k, p) ==
    IF k = 0 \/ p = 0 THEN 0
    ELSE IF (k * p) % 100 # 0 THEN (k * p) \div 100
    ELSE LET q == (k * p) \div 100
             d == Float64Div100Error(k)
             e == Log2Floor(q, 1) - Log2Floor(k, 100)
             half == IF IsPow2(q) THEN 25 * (2 ^ e) ELSE 50 * (2 ^ e)
         IN  IF d < 0 /\ (0 - d) * p > half THEN q - 1 ELSE q

\* math.Round(x) of the quotient a/b: nearest integer, halves away from zero
MathRound(a, b) == (2 * a + b) \div (2 * b)

-----------------------------------------------------------------------------
(* WidgetElement *)

\* e.img == nil before the first drawElement
NoImg == [w |-> -1, h |-> -1]

\* image.NewRGBA(image.Rect(0, 0, dx, dy)): image.Rect puts the corners in
\* order, so a negative extent yields its absolute value
NewRGBA(dx, dy) == [w |-> IF dx < 0 THEN 0 - dx ELSE dx,
                    h |-> IF dy < 0 THEN 0 - dy ELSE dy]

\* &WidgetElement{dpi: dpi}: every other field has its zero value
NewWidgetElement(dpi) ==
    [img |-> NoImg, segmentHeight |-> 0, segmentsInterspace |-> 0,
     dpi |-> dpi, segmentPositionY |-> 0, segments |-> <<>>]

\* A segment carries what it was added with.  fails says that the input
\* (the icon image, the text and its font, the bar) is one for which the
\* paste, resize or text rendering of its draw returns an error.
iconSegment == [kind |-> "icon", percentage |-> 0, alignmentX |-> 0,
                centerVertically |-> FALSE, fails |-> FALSE]

percentageBarSegment(percentage) ==
    [kind |-> "bar", percentage |-> percentage, alignmentX |-> 0,
     centerVertically |-> FALSE, fails |-> FALSE]

textSegment(alignmentX, centerVertically) ==
    [kind |-> "text", percentage |-> 0, alignmentX |-> alignmentX,
     centerVertically |-> centerVertically, fails |-> FALSE]

blankSegment == [kind |-> "blank", percentage |-> 0, alignmentX |-> 0,
                 centerVertically |-> FALSE, fails |-> FALSE]

addIconSegment(e) == [e EXCEPT !.segments = Append(@, iconSegment)]

addPercentageBarSegment(e, percentage) ==
    [e EXCEPT !.segments = Append(@, percentageBarSegment(percentage))]

addTextSegment(e, alignmentX, centerVertically) ==
    [e EXCEPT !.segments = Append(@, textSegment(alignmentX, centerVertically))]

\* a blank segment that leaves the element as it is
addBlankSegmentAddingNothing(e) == e

addBlankSegment(e) == [e EXCEPT !.segments = Append(@, blankSegment)]

numberOfSegments(e) == Len(e.segments)

height(e) == ToUint(e.img.h)

width(e) == ToUint(e.img.w)

calculateSegmentsInterspace(e) ==
    LET interspace == height(e) \div ToUint(3 * numberOfSegments(e))
    IN  [e EXCEPT !.segmentsInterspace =
                      IF interspace < 5 THEN 5 ELSE interspace]

calculateSegmentSize(e) ==
    [e EXCEPT !.segmentHeight =
        ToUint(height(e)
                 - ToUint((numberOfSegments(e) - 1) * e.segmentsInterspace))
          \div numberOfSegments(e)]

\* the cursor advanced by the band height alone
incrementSegmentPositionYByHeight(e) ==
    [e EXCEPT !.segmentPositionY = ToUint(@ + e.segmentHeight)]

incrementSegmentPositionY(e) ==
    [e EXCEPT !.segmentPositionY =
                  ToUint(@ + e.segmentHeight + e.segmentsInterspace)]

-----------------------------------------------------------------------------
(* createBar *)

\* thickPartLength := int((float64(lengthInt) / 100.0) * float64(percentage))
thickPartLength(lengthInt, percentage) ==
    Float64MulOfDiv100(lengthInt, percentage)

\* The bitmap createBar returns, one colour per pixel: the first loop paints
\* the columns below thickPartLength white over the whole thickness, the
\* second paints the others gray in the rows yOffset .. yOffset+thin-1.
createBar(length, thickness, percentage) ==
    LET thicknessInt == ToInt(thickness)
        lengthInt == ToInt(length)
        thick == thickPartLength(lengthInt, percentage)
        thinThickness == thicknessInt - (thicknessInt \div 3)
        yOffset == (thicknessInt - thinThickness) \div 2
    IN  [p \in (0 .. lengthInt - 1) \X (0 .. thicknessInt - 1) |->
            IF p[1] < thick THEN "white"
            ELSE IF p[2] >= yOffset /\ p[2] < yOffset + thinThickness
                 THEN "gray"
                 ELSE "transparent"]

-----------------------------------------------------------------------------
(* calculateIconSizeRatio *)

\* A float64 ratio is kept as the integer c of hundredths that the code's
\* literal or rounding names; the double it stands for is fl(c / 100).
calculateIconSizeRatioTruncating(numberOfInfoSegments) ==
    IF numberOfInfoSegments = 0 THEN 100
    ELSE IF numberOfInfoSegments = 1 THEN 66
    ELSE 100 \div numberOfInfoSegments

calculateIconSizeRatio(numberOfInfoSegments) ==
    IF numberOfInfoSegments = 0 THEN 100
    ELSE IF numberOfInfoSegments = 1 THEN 66
    ELSE MathRound(100, numberOfInfoSegments)

\* the literal switch of the older createButtonImage
createButtonImageIconRatio(elementCount) ==
    CASE elementCount = 0 -> 100
      [] elementCount = 1 -> 66
      [] elementCount = 2 -> 50
      [] elementCount = 3 -> 33
      [] OTHER -> 0

-----------------------------------------------------------------------------
(* Drawing an element *)

\* segment.draw(e): what the segment paints into the element's canvas.
\* An icon is resized to min(width, band height) and centred; a bar of the
\* element's width and the band's height is pasted at the cursor; a text is
\* fitted to the band and set at the cursor; a blank paints nothing.
\* cursor is e.segmentPositionY at the call; every draw ignores or only
\* logs an error, in which case nothing is painted.
draw(segment, e) ==
    CASE segment.kind = "icon" ->
            LET iconSize == IF width(e) < e.segmentHeight
                            THEN width(e) ELSE e.segmentHeight
            IN  [kind |-> "icon", x |-> -1, y |-> -1, w |-> ToInt(iconSize),
                 h |-> ToInt(iconSize), dpi |-> 0, seg |-> segment,
                 cursor |-> e.segmentPositionY, painted |-> ~segment.fails]
      [] segment.kind = "bar" ->
            [kind |-> "bar", x |-> 0, y |-> ToInt(e.segmentPositionY),
             w |-> ToInt(width(e)), h |-> ToInt(e.segmentHeight), dpi |-> 0,
             seg |-> segment,
             cursor |-> e.segmentPositionY, painted |-> ~segment.fails]
      [] segment.kind = "text" ->
            [kind |-> "text", x |-> 0, y |-> ToInt(e.segmentPositionY),
             w |-> ToInt(width(e)), h |-> ToInt(e.segmentHeight),
             dpi |-> e.dpi, seg |-> segment,
             cursor |-> e.segmentPositionY, painted |-> ~segment.fails]
      [] OTHER ->
            [kind |-> "blank", x |-> 0, y |-> 0, w |-> 0, h |-> 0, dpi |-> 0,
             seg |-> segment,
             cursor |-> e.segmentPositionY, painted |-> FALSE]

RECURSIVE drawSegmentsStoppingAtFailure(_, _, _)
\* the loop left at the first segment whose draw fails
drawSegmentsStoppingAtFailure(e, i, ops) ==
    IF i > Len(e.segments) \/ (i > 1 /\ e.segments[i - 1].fails)
    THEN [e |-> e, ops |-> ops]
    ELSE drawSegmentsStoppingAtFailure(incrementSegmentPositionY(e), i + 1,
                                       Append(ops, draw(e.segments[i], e)))

RECURSIVE drawSegments(_, _, _)
\* for _, segment := range e.segments { segment.draw(e); increment }
drawSegments(e, i, ops) ==
    IF i > Len(e.segments) THEN [e |-> e, ops |-> ops]
    ELSE drawSegments(incrementSegmentPositionY(e), i + 1,
                      Append(ops, draw(e.segments[i], e)))

\* the older ImageElement.DrawElement: canvas and cursor are set once, by
\* the constructor, and not again on each draw
drawElementKeepingCursor(e, name, px, py, dx, dy) ==
    LET e0 == [e EXCEPT !.img = NewRGBA(dx, dy)]
        e1 == calculateSegmentSize(calculateSegmentsInterspace(e0))
        r == drawSegments(e1, 1, <<>>)
    IN  [e |-> r.e,
         drawn |-> [name |-> name, x |-> px, y |-> py, w |-> r.e.img.w,
                    h |-> r.e.img.h, ops |-> r.ops]]

\* e.drawElement(targetImage, position, bounds), bounds reaching from (0,0)
\* to (dx,dy): the element as the call leaves it, and what it pasted into
\* the target at the position
drawElement(e, name, px, py, dx, dy) ==
    LET e0 == [e EXCEPT !.segmentPositionY = 0, !.img = NewRGBA(dx, dy)]
        e1 == calculateSegmentSize(calculateSegmentsInterspace(e0))
        r == drawSegments(e1, 1, <<>>)
    IN  [e |-> r.e,
         drawn |-> [name |-> name, x |-> px, y |-> py, w |-> r.e.img.w,
                    h |-> r.e.img.h, ops |-> r.ops]]

-----------------------------------------------------------------------------
(* ButtonLayout and ScreenSegmentLayout *)

\* A pointer to an element is a sequence: <<>> is nil, <<e>> points to e.
Nil == <<>>

NewLayout(kind, dpi) ==
    [kind |-> kind, dpi |-> dpi, iconElement |-> Nil, labelElement |-> Nil,
     infoElement |-> Nil]

\* if l.infoElement == nil { l.infoElement = &WidgetElement{dpi: dpi} }
infoElementOr(l, dpi) ==
    IF l.infoElement = Nil THEN NewWidgetElement(dpi) ELSE l.infoElement[1]

\* the icon added to the icon element the layout already has
SetIconKeepingElement(l) ==
    [l EXCEPT !.iconElement =
        <<addIconSegment(IF l.iconElement = Nil THEN NewWidgetElement(0)
                         ELSE l.iconElement[1])>>]

\* l.iconElement = &WidgetElement{}; l.iconElement.addIconSegment(icon)
SetIcon(l) ==
    [l EXCEPT !.iconElement = <<addIconSegment(NewWidgetElement(0))>>]

AddPercentageBar(l, percentage) ==
    [l EXCEPT !.infoElement =
        <<addPercentageBarSegment(infoElementOr(l, 0), percentage)>>]

AddText(l, alignmentX, centerVertically) ==
    [l EXCEPT !.infoElement =
        <<addTextSegment(infoElementOr(l, l.dpi), alignmentX,
                         centerVertically)>>]

SetLabel(l, alignmentX, centerVertically) ==
    [l EXCEPT !.labelElement =
        <<addTextSegment(NewWidgetElement(l.dpi), alignmentX,
                         centerVertically)>>]

AddBlank(l) ==
    [l EXCEPT !.infoElement = <<addBlankSegment(infoElementOr(l, l.dpi))>>]

\* uint(float64(maxHeight) * iconHeightRatio), not capped
calculateIconSizeUncapped(l, maxHeight, maxWidth) ==
    LET iconHeightRatio ==
            IF l.infoElement # Nil
            THEN calculateIconSizeRatio(numberOfSegments(l.infoElement[1]))
            ELSE calculateIconSizeRatio(0)
    IN  ToUint(Float64MulOfDiv100(iconHeightRatio, maxHeight))

calculateIconSize(l, maxHeight, maxWidth) ==
    LET iconHeightRatio ==
            IF l.infoElement # Nil
            THEN calculateIconSizeRatio(numberOfSegments(l.infoElement[1]))
            ELSE calculateIconSizeRatio(0)
        iconHeight == ToUint(Float64MulOfDiv100(iconHeightRatio, maxHeight))
    IN  IF iconHeight > maxWidth THEN maxWidth ELSE iconHeight

\* ButtonLayout.CreateImage(bounds) for bounds of extent dx, dy: the layout
\* as the call leaves it and the image it returns
ButtonLayoutCreateImage(l, dx, dy) ==
    LET imageHeight == ToUint(dy)
        imageWidth == ToUint(dx)
        margin == imageHeight \div 18
        availHeight == ToUint(imageHeight - ToUint(margin * 2))
        availWidth == ToUint(imageWidth - ToUint(margin * 2))
        hasIcon == l.iconElement # Nil
        iconDraw == drawElement(l.iconElement[1], "icon", ToInt(margin),
                                ToInt(margin), ToInt(availWidth),
                                ToInt(calculateIconSize(l, availHeight,
                                                        availWidth)))
        positionY == IF hasIcon
                     THEN ToInt(margin) + ToInt(ToUint(height(iconDraw.e) + margin))
                     ELSE ToInt(margin)
        hasInfo == l.infoElement # Nil
        infoDraw == drawElement(l.infoElement[1], "info", ToInt(margin),
                                positionY, ToInt(availWidth),
                                ToInt(ToUint(availHeight - ToUint(positionY))))
    IN  [l |-> [l EXCEPT
                  !.iconElement = IF hasIcon THEN <<iconDraw.e>> ELSE @,
                  !.infoElement = IF hasInfo THEN <<infoDraw.e>> ELSE @],
         img |-> [w |-> ToInt(imageWidth), h |-> ToInt(imageHeight),
                  draws |-> (IF hasIcon THEN <<iconDraw.drawn>> ELSE <<>>)
                            \o (IF hasInfo THEN <<infoDraw.drawn>> ELSE <<>>)]]

\* labelHeight := uint(float64(height)/4.5) - interspaceElements/2, with
\* rounding in place of the truncating conversion
labelHeightRounded(availHeight, interspaceElements) ==
    ToUint(MathRound(2 * availHeight, 9) - interspaceElements \div 2)

\* labelHeight := uint(float64(height)/4.5) - interspaceElements/2; the
\* double nearest to height/4.5 truncates to floor(2*height/9)
labelHeight(availHeight, interspaceElements) ==
    ToUint((2 * availHeight) \div 9 - interspaceElements \div 2)

\* the icon given half the available width
iconBoundsMaxXHalf(availWidth, interspaceElements) ==
    ToInt(ToUint(availWidth \div 2 - interspaceElements \div 2))

\* iconBounds.Max.X = int(uint(float64(width)/3.0) - interspaceElements/2);
\* the double nearest to width/3 truncates to floor(width/3)
iconBoundsMaxX(availWidth, interspaceElements) ==
    ToInt(ToUint(availWidth \div 3 - interspaceElements \div 2))

\* infoBounds.Max.X = int(width - uint(iconBounds.Dx()) - interspaceElements/2)
infoBoundsMaxX(availWidth, iconBoundsDx, interspaceElements) ==
    ToInt(ToUint(ToUint(availWidth - ToUint(iconBoundsDx))
                   - interspaceElements \div 2))

\* the elements drawn icon first
elementDrawOrderIconFirst(labelDraws, iconDraws, infoDraws) ==
    iconDraws \o labelDraws \o infoDraws

\* the three drawElement calls in the order CreateImage makes them
elementDrawOrder(labelDraws, iconDraws, infoDraws) ==
    labelDraws \o iconDraws \o infoDraws

\* ScreenSegmentLayout.CreateImage(bounds) for bounds of extent dx, dy
ScreenSegmentLayoutCreateImage(l, dx, dy) ==
    LET imageHeight == ToUint(dy)
        imageWidth == ToUint(dx)
        margin == imageHeight \div 18
        availHeight == ToUint(imageHeight - ToUint(margin * 2))
        availWidth == ToUint(imageWidth - ToUint(margin * 2))
        interspaceElements == margin
        hasLabel == l.labelElement # Nil
        hasIcon == l.iconElement # Nil
        hasInfo == l.infoElement # Nil
        lblHeight == labelHeight(availHeight, interspaceElements)
        drop == IF hasLabel THEN ToInt(ToUint(lblHeight + interspaceElements))
                ELSE 0
        labelBoundsY == IF hasLabel THEN ToInt(lblHeight) ELSE ToInt(availHeight)
        rowBoundsY == ToInt(availHeight) - drop
        rowPositionY == ToInt(margin) + drop
        split == hasIcon /\ hasInfo
        iconBoundsX == IF split
                       THEN iconBoundsMaxX(availWidth, interspaceElements)
                       ELSE ToInt(availWidth)
        infoBoundsX == IF split
                       THEN infoBoundsMaxX(availWidth, iconBoundsX,
                                           interspaceElements)
                       ELSE ToInt(availWidth)
        infoPositionX == IF split
                         THEN ToInt(margin) + iconBoundsX
                                + ToInt(interspaceElements)
                         ELSE ToInt(margin)
        labelDraw == drawElement(l.labelElement[1], "label", ToInt(margin),
                                 ToInt(margin), ToInt(availWidth), labelBoundsY)
        iconDraw == drawElement(l.iconElement[1], "icon", ToInt(margin),
                                rowPositionY, iconBoundsX, rowBoundsY)
        infoDraw == drawElement(l.infoElement[1], "info", infoPositionX,
                                rowPositionY, infoBoundsX, rowBoundsY)
    IN  [l |-> [l EXCEPT
                  !.labelElement = IF hasLabel THEN <<labelDraw.e>> ELSE @,
                  !.iconElement = IF hasIcon THEN <<iconDraw.e>> ELSE @,
                  !.infoElement = IF hasInfo THEN <<infoDraw.e>> ELSE @],
         img |-> [w |-> ToInt(imageWidth), h |-> ToInt(imageHeight),
                  draws |-> elementDrawOrder(
                      IF hasLabel THEN <<labelDraw.drawn>> ELSE <<>>,
                      IF hasIcon THEN <<iconDraw.drawn>> ELSE <<>>,
                      IF hasInfo THEN <<infoDraw.drawn>> ELSE <<>>)]]

-----------------------------------------------------------------------------
(* The layout as a state machine: builder calls and CreateImage *)

\* the DPI a caller gives a layout: TOUCHSCREEN_DPI
LayoutDpis == {200}

\* the extents <<dx, dy>> of the bounds handed to CreateImage: key and
\* touch-strip sizes, and small and narrow rectangles
Canvases == {<<72, 72>>, <<100, 100>>, <<200, 100>>, <<64, 64>>, <<30, 72>>,
             <<1, 36>>}

\* the percentages and text styles <<alignmentX, centerVertically>> the
\* builder calls are made with
Percentages == {75}

TextStyles == {<<0, FALSE>>}

NoImage == [w |-> -1, h |-> -1, draws |-> <<>>]

\* the values of the variables a specification does not use
IdleCalc == [fn |-> "none", in |-> <<>>, pc |-> "done", out |-> <<>>]

IdleFit == [pc |-> "idle"]

NoRace == [on |-> FALSE]

NoWidget == [kind |-> "none"]

NoLayout == [kind |-> "none"]

Init ==
    /\ \E kind \in {"button", "segment"}, dpi \in LayoutDpis :
            layout = NewLayout(kind, dpi)
    /\ image = NoImage
    /\ lastCall = "new"
    /\ fit = IdleFit
    /\ calc = IdleCalc
    /\ race = NoRace
    /\ widget = NoWidget

InfoHasRoom ==
    IF layout.infoElement = Nil THEN TRUE
    ELSE numberOfSegments(layout.infoElement[1]) < MaxSegments

ButtonLayoutSetIcon ==
    /\ layout.kind = "button"
    /\ layout' = SetIcon(layout)
    /\ lastCall' = "SetIcon"
    /\ UNCHANGED <<image, fit, calc, race, widget>>

ButtonLayoutAddPercentageBar ==
    /\ layout.kind = "button" /\ InfoHasRoom
    /\ \E percentage \in Percentages :
            layout' = AddPercentageBar(layout, percentage)
    /\ lastCall' = "AddPercentageBar"
    /\ UNCHANGED <<image, fit, calc, race, widget>>

ButtonLayoutAddText ==
    /\ layout.kind = "button" /\ InfoHasRoom
    /\ \E style \in TextStyles :
            layout' = AddText(layout, style[1], style[2])
    /\ lastCall' = "AddText"
    /\ UNCHANGED <<image, fit, calc, race, widget>>

ScreenSegmentLayoutSetIcon ==
    /\ layout.kind = "segment"
    /\ layout' = SetIcon(layout)
    /\ lastCall' = "SetIcon"
    /\ UNCHANGED <<image, fit, calc, race, widget>>

ScreenSegmentLayoutAddPercentageBar ==
    /\ layout.kind = "segment" /\ InfoHasRoom
    /\ \E percentage \in Percentages :
            layout' = AddPercentageBar(layout, percentage)
    /\ lastCall' = "AddPercentageBar"
    /\ UNCHANGED <<image, fit, calc, race, widget>>

ScreenSegmentLayoutAddText ==
    /\ layout.kind = "segment" /\ InfoHasRoom
    /\ \E style \in TextStyles :
            layout' = AddText(layout, style[1], style[2])
    /\ lastCall' = "AddText"
    /\ UNCHANGED <<image, fit, calc, race, widget>>

ScreenSegmentLayoutSetLabel ==
    /\ layout.kind = "segment"
    /\ \E style \in TextStyles :
            layout' = SetLabel(layout, style[1], style[2])
    /\ lastCall' = "SetLabel"
    /\ UNCHANGED <<image, fit, calc, race, widget>>

ScreenSegmentLayoutAddBlank ==
    /\ layout.kind = "segment" /\ InfoHasRoom
    /\ layout' = AddBlank(layout)
    /\ lastCall' = "AddBlank"
    /\ UNCHANGED <<image, fit, calc, race, widget>>

\* lastCall tells a CreateImage call that directly follows another one
\* with the same bounds from any other
CallNameOfCreateImage(bounds) ==
    IF lastCall \in {"CreateImage", "CreateImageAgain"}
         /\ image.w = bounds[1] /\ image.h = bounds[2]
    THEN "CreateImageAgain" ELSE "CreateImage"

ButtonLayoutCreateImageCall ==
    /\ layout.kind = "button"
    /\ \E bounds \in Canvases :
          LET r == ButtonLayoutCreateImage(layout, bounds[1], bounds[2])
          IN  /\ layout' = r.l
              /\ image' = r.img
              /\ lastCall' = CallNameOfCreateImage(bounds)
    /\ UNCHANGED <<fit, calc, race, widget>>

ScreenSegmentLayoutCreateImageCall ==
    /\ layout.kind = "segment"
    /\ \E bounds \in Canvases :
          LET r == ScreenSegmentLayoutCreateImage(layout, bounds[1], bounds[2])
          IN  /\ layout' = r.l
              /\ image' = r.img
              /\ lastCall' = CallNameOfCreateImage(bounds)
    /\ UNCHANGED <<fit, calc, race, widget>>

Next ==
    \/ ButtonLayoutSetIcon
    \/ ButtonLayoutAddPercentageBar
    \/ ButtonLayoutAddText
    \/ ButtonLayoutCreateImageCall
    \/ ScreenSegmentLayoutSetIcon
    \/ ScreenSegmentLayoutAddPercentageBar
    \/ ScreenSegmentLayoutAddText
    \/ ScreenSegmentLayoutSetLabel
    \/ ScreenSegmentLayoutAddBlank
    \/ ScreenSegmentLayoutCreateImageCall

Spec == Init /\ [][Next]_vars

-----------------------------------------------------------------------------
(* Renders of layouts some of whose segments fail to draw *)

\* the element with the segments at the positions in failing marked
FailingAt(e, failing) ==
    [e EXCEPT !.segments =
        [k \in DOMAIN e.segments |->
            [e.segments[k] EXCEPT !.fails = k \in failing]]]

FailingIn(pointer, failing) ==
    IF pointer = Nil THEN Nil ELSE <<FailingAt(pointer[1], failing)>>

\* the builder calls that add an info segment
InfoCalls(kind) ==
    IF kind = "button" THEN {"AddPercentageBar", "AddText"}
    ELSE {"AddPercentageBar", "AddText", "AddBlank"}

RECURSIVE Built(_, _, _)
\* the layout after the builder calls calls[i], calls[i+1], ...
Built(l, calls, i) ==
    IF i > Len(calls) THEN l
    ELSE Built(CASE calls[i] = "SetIcon" -> SetIcon(l)
                 [] calls[i] = "SetLabel" -> SetLabel(l, 0, FALSE)
                 [] calls[i] = "AddPercentageBar" -> AddPercentageBar(l, 75)
                 [] calls[i] = "AddText" -> AddText(l, 0, FALSE)
                 [] OTHER -> AddBlank(l),
               calls, i + 1)

InitFail ==
    /\ image = NoImage
    /\ lastCall = "new"
    /\ fit = IdleFit
    /\ calc = IdleCalc
    /\ race = NoRace
    /\ widget = NoWidget
    /\ \E kind \in {"button", "segment"}, n \in 0 .. MaxFailSegments :
         \E head \in SUBSET (IF kind = "button" THEN {"SetIcon"}
                              ELSE {"SetIcon", "SetLabel"}),
            info \in [1 .. n -> InfoCalls(kind)],
            failing \in SUBSET {"icon", "label"},
            infoFailing \in SUBSET (1 .. n) :
              LET l0 == NewLayout(kind, 200)
                  l1 == IF "SetIcon" \in head THEN SetIcon(l0) ELSE l0
                  l2 == IF "SetLabel" \in head
                        THEN SetLabel(l1, 0, FALSE) ELSE l1
                  l3 == Built(l2, info, 1)
              IN  layout =
                     [l3 EXCEPT
                        !.iconElement =
                            FailingIn(@, IF "icon" \in failing
                                         THEN {1} ELSE {}),
                        !.labelElement =
                            FailingIn(@, IF "label" \in failing
                                         THEN {1} ELSE {}),
                        !.infoElement = FailingIn(@, infoFailing)]

NextFail ==
    \/ ButtonLayoutCreateImageCall
    \/ ScreenSegmentLayoutCreateImageCall

SpecFail == InitFail /\ [][NextFail]_vars

-----------------------------------------------------------------------------
(* Claims about the layouts, checked under Spec *)

Rendered == lastCall \in {"CreateImage", "CreateImageAgain"}

HasDraw(name) == \E i \in DOMAIN image.draws : image.draws[i].name = name

DrawOf(name) ==
    image.draws[CHOOSE i \in DOMAIN image.draws : image.draws[i].name = name]

InfoSegmentCount ==
    IF layout.infoElement = Nil THEN 0
    ELSE numberOfSegments(layout.infoElement[1])

\* the geometry the layouts are specified with, from the returned image
CanvasMargin == image.h \div 18

AvailableHeight == image.h - 2 * CanvasMargin

AvailableWidth == ToUint(image.w - 2 * CanvasMargin)

\* C2: calling CreateImage twice in a row with the same bounds yields
\* identical bitmaps: the second call sees no state left by the first.
C2_RenderIdempotent ==
    [][lastCall' = "CreateImageAgain" => image' = image]_vars

\* a second render in a row of a layout whose info element has moved its
\* cursor past a first band
C2_Witness ==
    /\ lastCall = "CreateImageAgain"
    /\ layout.iconElement # Nil
    /\ InfoSegmentCount >= 2
    /\ layout.infoElement[1].segmentPositionY > 0
    /\ \E i \in DOMAIN DrawOf("info").ops :
            DrawOf("info").ops[i].kind = "bar"
                /\ DrawOf("info").ops[i].y > 0

\* C8: a ButtonLayout with an info element and no icon element draws the
\* info element at (margin, margin) with the full available height
\* canvasHeight - 2*margin.
C8_InfoFullHeight ==
    (Rendered /\ layout.kind = "button" /\ layout.iconElement = Nil
        /\ layout.infoElement # Nil)
    => /\ DrawOf("info").x = CanvasMargin
       /\ DrawOf("info").y = CanvasMargin
       /\ DrawOf("info").h = AvailableHeight

\* the hundredth nearest to 1/n, stated without the code's rounding
NearestHundredth(n) ==
    CHOOSE c \in 0 .. 100 : 2 * (c * n - 100) <= n /\ 2 * (100 - c * n) < n

\* C9: the icon element of a ButtonLayout has the height
\* floor(availableHeight * iconRatio(n)) capped at availableWidth, n being
\* the number of info segments (0 without info element); a 100x100 canvas
\* with one text segment gives margin 5 and icon height floor(90 * 0.66).
C9_IconHeight ==
    (Rendered /\ layout.kind = "button" /\ layout.iconElement # Nil)
    => LET n == InfoSegmentCount
           c == IF n = 0 THEN 100 ELSE IF n = 1 THEN 66
                ELSE NearestHundredth(n)
       IN  /\ DrawOf("icon").h
                 = Min((AvailableHeight * c) \div 100, AvailableWidth)
           /\ (image.w = 100 /\ image.h = 100 /\ n = 1
                  => CanvasMargin = 5 /\ DrawOf("icon").h = 59)

\* an icon rendered where the cap at the available width applies: canvas
\* 30x72, two info segments, 64 * 0.5 = 32 > 22
C9_Witness ==
    /\ Rendered /\ layout.kind = "button" /\ layout.iconElement # Nil
    /\ image.w = 30 /\ InfoSegmentCount = 2 /\ DrawOf("icon").h = 22

\* the label and row geometry of a ScreenSegmentLayout whose label element
\* has the height lh
LabelAndRowGeometry(lh) ==
    /\ DrawOf("label").h = lh
    /\ \A name \in {"icon", "info"} :
          HasDraw(name) =>
              /\ DrawOf(name).y = CanvasMargin + lh + CanvasMargin
              /\ DrawOf(name).h = AvailableHeight - lh - CanvasMargin

\* C10 as stated: the label element's height is round(H/4.5) - margin/2,
\* the icon/info row starts at margin + labelHeight + margin and has the
\* height H - labelHeight - margin.
C10_LabelHeightRounded ==
    (Rendered /\ layout.kind = "segment" /\ layout.labelElement # Nil)
    => LabelAndRowGeometry(MathRound(2 * AvailableHeight, 9)
                             - CanvasMargin \div 2)

\* C10 as amended: the label element's height is floor(H/4.5) - margin/2
\* (the conversion to uint truncates), the icon/info row starts at
\* margin + labelHeight + margin and has the height H - labelHeight - margin.
C10_LabelHeightTruncated ==
    (Rendered /\ layout.kind = "segment" /\ layout.labelElement # Nil)
    => LabelAndRowGeometry((2 * AvailableHeight) \div 9
                             - CanvasMargin \div 2)

\* label, icon and info rendered on a canvas where H/4.5 = 12.9
C10_Witness ==
    /\ Rendered /\ layout.kind = "segment" /\ image.h = 64
    /\ HasDraw("label") /\ HasDraw("icon") /\ HasDraw("info")
    /\ DrawOf("label").h = 11

\* a ScreenSegmentLayout rendered on a canvas wide enough that no width of
\* the row computation wraps around
SegmentRendered ==
    /\ Rendered /\ layout.kind = "segment"
    /\ image.w >= 2 * CanvasMargin
    /\ AvailableWidth \div 3 >= CanvasMargin \div 2

C20_RowInsideMargins ==
    (SegmentRendered /\ HasDraw("icon") /\ HasDraw("info")) =>
        /\ DrawOf("icon").x >= CanvasMargin
        /\ DrawOf("info").x = DrawOf("icon").x + DrawOf("icon").w + CanvasMargin
        /\ DrawOf("info").x + DrawOf("info").w <= image.w - CanvasMargin
        /\ DrawOf("icon").w + CanvasMargin + DrawOf("info").w <= AvailableWidth

\* the elements of the returned image were drawn in the order of the ranks
DrawnInOrder(rank) ==
    \A i, j \in DOMAIN image.draws :
        i < j => rank[image.draws[i].name] < rank[image.draws[j].name]

\* C12 as stated: in every render the elements present are drawn icon
\* first, then label, then info.
C12_IconLabelInfoOrder ==
    Rendered => DrawnInOrder([icon |-> 1, label |-> 2, info |-> 3])

\* C12 as amended: in every render the elements present are drawn label
\* first, then icon, then info, whatever the order of the builder calls.
C12_LabelIconInfoOrder ==
    Rendered => DrawnInOrder([label |-> 1, icon |-> 2, info |-> 3])

\* a render of all three elements of a ScreenSegmentLayout
C12_Witness ==
    /\ Rendered /\ layout.kind = "segment"
    /\ Len(image.draws) = 3
    /\ image.draws[1].name = "label"
    /\ image.draws[2].name = "icon"

\* the elements of a layout and their segments
SegmentsOf(pointer) == IF pointer = Nil THEN Nil ELSE <<pointer[1].segments>>

ElementsOf(l) ==
    <<SegmentsOf(l.iconElement), SegmentsOf(l.labelElement),
      SegmentsOf(l.infoElement)>>

\* C13: once CreateImage has been called, no call changes the elements or
\* segments of the layout, and a later render with the same bounds returns
\* the same image.
C13_RenderedIsTerminal ==
    [][image # NoImage =>
          /\ ElementsOf(layout') = ElementsOf(layout)
          /\ (image'.w = image.w /\ image'.h = image.h) => image' = image]_vars

\* the element of the layout that was drawn under the name
DrawnElement(name) ==
    CASE name = "icon" -> layout.iconElement[1]
      [] name = "label" -> layout.labelElement[1]
      [] OTHER -> layout.infoElement[1]

\* C17: drawElement draws the segments in insertion order, the k-th
\* (k = 0..N-1) with the cursor at k * (bandHeight + spacing): 0 at the
\* first, advanced by bandHeight + spacing after every segment, blank
\* segments included.
C17_SegmentOrderAndCursor ==
    Rendered =>
        \A d \in DOMAIN image.draws :
            LET e == DrawnElement(image.draws[d].name)
                ops == image.draws[d].ops
            IN  /\ Len(ops) = Len(e.segments)
                /\ \A k \in DOMAIN ops :
                      /\ ops[k].seg = e.segments[k]
                      /\ ops[k].cursor
                            = (k - 1) * (e.segmentHeight + e.segmentsInterspace)
                /\ e.segmentPositionY
                      = Len(ops) * (e.segmentHeight + e.segmentsInterspace)

\* an info element of three segments, the second a blank, the third drawn
\* two strides down
C17_Witness ==
    /\ Rendered /\ HasDraw("info")
    /\ Len(DrawOf("info").ops) = 3
    /\ DrawOf("info").ops[2].kind = "blank"
    /\ DrawOf("info").ops[3].kind = "bar"
    /\ DrawOf("info").ops[3].cursor > DrawOf("info").ops[2].cursor
    /\ DrawOf("info").ops[2].cursor > 0

-----------------------------------------------------------------------------
(* Failing segments (under SpecFail) *)

ElementNamed(name) ==
    CASE name = "icon" -> layout.iconElement
      [] name = "label" -> layout.labelElement
      [] OTHER -> layout.infoElement

\* C15: a segment whose draw fails paints nothing and stops nothing: the
\* image is returned, every element of the layout is drawn, and in each
\* element every segment is reached, the k-th with the cursor at
\* k * (band height + spacing), and every segment that does not fail (and
\* is not a blank) is painted.
C15_FailureSkipsOneSegment ==
    Rendered =>
        /\ image # NoImage
        /\ \A name \in {"icon", "label", "info"} :
              LET pointer == ElementNamed(name)
              IN  /\ HasDraw(name) <=> pointer # Nil
                  /\ pointer # Nil =>
                        LET e == pointer[1]
                            ops == DrawOf(name).ops
                        IN  /\ Len(ops) = Len(e.segments)
                            /\ \A k \in DOMAIN ops :
                                  /\ ops[k].seg = e.segments[k]
                                  /\ ops[k].cursor
                                        = (k - 1) * (e.segmentHeight
                                                      + e.segmentsInterspace)
                                  /\ ops[k].painted
                                        = (~e.segments[k].fails
                                             /\ e.segments[k].kind # "blank")

\* a render in which the icon and the first of two info segments failed
\* and the second info segment was painted
C15_Witness ==
    /\ Rendered /\ HasDraw("icon") /\ HasDraw("info")
    /\ ~DrawOf("icon").ops[1].painted
    /\ Len(DrawOf("info").ops) = 2
    /\ ~DrawOf("info").ops[1].painted
    /\ DrawOf("info").ops[2].painted
    /\ DrawOf("info").ops[2].cursor > 0

-----------------------------------------------------------------------------
(* maxFontSize: the font-fit search *)

\* A point size.  A finite size is n units of 0.7/dpi point, so that the
\* step 0.7 is dpi units and the seed 1.4 * height * 72 / dpi is 144 * height
\* units.  For dpi = 0 the seed is height / 0: +Inf, or NaN for height 0.
Fin(n) == [k |-> "fin", n |-> n]

PosInf == [k |-> "inf", n |-> 0]

NaN == [k |-> "nan", n |-> 0]

\* startingFontsize * 1.4, taken from the width of the box
initialFontsizeFromWidth(dpi, boxWidth, boxHeight) ==
    IF dpi = 0 THEN (IF boxWidth = 0 THEN NaN ELSE PosInf)
    ELSE Fin(144 * boxWidth)

\* initialFontsize := float64(height) / (float64(dpi) / 72.0) * 1.4
initialFontsize(dpi, boxWidth, boxHeight) ==
    IF dpi = 0 THEN (IF boxHeight = 0 THEN NaN ELSE PosInf)
    ELSE Fin(144 * boxHeight)

\* fontsize > sizeDecrease (0.7): +Inf is greater, NaN compares false
greaterThanSizeDecrease(fontsize, dpi) ==
    CASE fontsize.k = "fin" -> fontsize.n > dpi
      [] fontsize.k = "inf" -> TRUE
      [] OTHER -> FALSE

\* fontsize -= sizeDecrease: +Inf and NaN stay what they are
minusSizeDecrease(fontsize, dpi) ==
    IF fontsize.k = "fin" THEN Fin(fontsize.n - dpi) ELSE fontsize

\* Pixels per em, times 720, of the face truetype.NewFace builds for the
\* size and dpi: size * dpi / 72, where the library takes a size that is
\* not > 0 (0, NaN) as 12 point and a dpi that is not > 0 as 72.
Em720(fontsize, dpi) ==
    CASE fontsize.k = "fin" /\ fontsize.n > 0 -> 7 * fontsize.n
      [] fontsize.k = "fin" -> 120 * dpi
      [] OTHER -> 8640

CeilDiv(a, b) == (a + b - 1) \div b

\* what a measurement yields at size +Inf: the conversion of the infinite
\* scale to fixed point is implementation-dependent, so a build measures
\* nothing at all, or more than any box
HugeMetric == UintModulus

MetricAtInf(build) == IF build = "zero" THEN 0 ELSE HugeMetric

\* The text as the font sets it: ink ascent, ink descent and advance width
\* in tenths of an em.  A measurement is the ceiling of the scaled extent,
\* which is non-decreasing in the size.
actualStringHeight(dpi, font, fontsize, build) ==
    IF fontsize.k = "inf"
    THEN [height |-> 2 * MetricAtInf(build), ascent |-> MetricAtInf(build),
          descent |-> MetricAtInf(build)]
    ELSE LET ascent == CeilDiv(font.asc * Em720(fontsize, dpi), 7200)
             descent == CeilDiv(font.desc * Em720(fontsize, dpi), 7200)
         IN  [height |-> ascent + descent, ascent |-> ascent,
              descent |-> descent]

actualStringWidth(dpi, font, fontsize, build) ==
    IF fontsize.k = "inf" THEN MetricAtInf(build)
    ELSE CeilDiv(font.adv * Em720(fontsize, dpi), 7200)

\* the loop conditions of the two phases
heightLoopContinues(dpi, font, fontsize, maxHeight, build) ==
    /\ actualStringHeight(dpi, font, fontsize, build).height > maxHeight
    /\ greaterThanSizeDecrease(fontsize, dpi)

widthLoopContinues(dpi, font, fontsize, maxWidth, build) ==
    /\ actualStringWidth(dpi, font, fontsize, build) > maxWidth
    /\ greaterThanSizeDecrease(fontsize, dpi)

\* the width phase started from the seed instead of the height-fit result
widthPhaseStartFromSeed(initial, heightFittingFontsize) == initial

\* determineWidthFittingFontsize(dpi, ttFont, heightFittingFontsize, ...)
widthPhaseStart(initial, heightFittingFontsize) == heightFittingFontsize

RECURSIVE determineHeightFittingFontsize(_, _, _, _, _)
\* the height phase as a whole, for a finite starting size
determineHeightFittingFontsize(dpi, font, fontsize, maxHeight, build) ==
    IF heightLoopContinues(dpi, font, fontsize, maxHeight, build)
    THEN determineHeightFittingFontsize(dpi, font,
             minusSizeDecrease(fontsize, dpi), maxHeight, build)
    ELSE fontsize

RECURSIVE determineWidthFittingFontsize(_, _, _, _, _)
\* the width phase as a whole, for a finite starting size
determineWidthFittingFontsize(dpi, font, fontsize, maxWidth, build) ==
    IF widthLoopContinues(dpi, font, fontsize, maxWidth, build)
    THEN determineWidthFittingFontsize(dpi, font,
             minusSizeDecrease(fontsize, dpi), maxWidth, build)
    ELSE fontsize

\* the size maxFontSize returns, for dpi > 0
maxFontSize(font, dpi, boxWidth, boxHeight, build) ==
    LET initial == initialFontsize(dpi, boxWidth, boxHeight)
        heightFitting ==
            determineHeightFittingFontsize(dpi, font, initial, boxHeight,
                                           build)
    IN  determineWidthFittingFontsize(dpi, font,
            widthPhaseStart(initial, heightFitting), boxWidth, build)

\* the dpi an element carries when it is drawn: the layout's, or 0 when the
\* info element was created by AddPercentageBar
FitDpis == {0, 72, 200}

\* texts as set by the font: a percentage, a word with descenders, a title
Fonts == {[asc |-> 7, desc |-> 0, adv |-> 18],
          [asc |-> 8, desc |-> 2, adv |-> 10],
          [asc |-> 7, desc |-> 2, adv |-> 40]}

Builds == {"zero", "huge"}

\* int(a/2.0 - b/2.0): the conversion truncates towards zero
IntOfHalfDifference(a, b) ==
    IF a >= b THEN (a - b) \div 2 ELSE 0 - ((b - a) \div 2)

\* the centred text put at the middle of the band
textOriginXAtMiddle(alignmentX, bandWidth, actualWidth) ==
    IF alignmentX = 0 THEN bandWidth \div 2
    ELSE IF alignmentX = -1 THEN 0
    ELSE bandWidth - actualWidth

\* the x textSegment.draw chooses, moved by drawString2 when it centres
\* horizontally: pt.X + int(float64(bounds.Dx())/2.0 - float64(actualWidth)/2.0)
textOriginX(alignmentX, bandWidth, actualWidth) ==
    IF alignmentX = 0 THEN 0 + IntOfHalfDifference(bandWidth, actualWidth)
    ELSE IF alignmentX = -1 THEN 0
    ELSE bandWidth - actualWidth

\* the older drawString2: bounds.Min.Y + int(yCenter) when centring
textBaselineYFromBoundsMin(positionY, bandHeight, ascent, descent, center) ==
    IF center THEN 0 + (bandHeight \div 2 + (ascent + descent) \div 2)
    ELSE positionY + bandHeight - descent

\* y := int(e.segmentPositionY) + int(e.segmentHeight) - descent, moved by
\* drawString2 when it centres vertically:
\* (pt.Y - bounds.Dy()) + int(float64(bounds.Dy()/2.0) + float64(actualHeight)/2.0)
textBaselineY(positionY, bandHeight, ascent, descent, center) ==
    LET y == positionY + bandHeight - descent
    IN  IF center
        THEN (y - bandHeight) + (bandHeight \div 2 + (ascent + descent) \div 2)
        ELSE y

\* the alignmentX values a text is added with: start, centre, end
Alignments == {-1, 0, 1}

\* the text is the first or the second segment of its element
BandIndexes == {0, 1}

InitFont ==
    /\ layout = NoLayout
    /\ image = NoImage
    /\ lastCall = "none"
    /\ calc = IdleCalc
    /\ race = NoRace
    /\ widget = NoWidget
    /\ \E dpi \in FitDpis, font \in Fonts, build \in Builds,
          boxWidth \in 0 .. MaxBoxWidth, boxHeight \in 0 .. MaxBoxHeight,
          alignmentX \in Alignments, centerVertically \in BOOLEAN,
          band \in BandIndexes :
            fit = [pc |-> "height", dpi |-> dpi, font |-> font,
                   alignmentX |-> alignmentX,
                   centerVertically |-> centerVertically,
                   segmentPositionY |-> band * (boxHeight + 5),
                   x |-> 0, y |-> 0,
                   build |-> build, maxWidth |-> boxWidth,
                   maxHeight |-> boxHeight,
                   initial |-> initialFontsize(dpi, boxWidth, boxHeight),
                   heightFitting |-> NaN,
                   fontsize |-> initialFontsize(dpi, boxWidth, boxHeight),
                   actualWidth |-> 0, ascent |-> 0, descent |-> 0,
                   passes |-> 0]

\* one pass through the loop of determineHeightFittingFontsize; passes is
\* the number of passes that went round again, modulo 2
HeightFitStep ==
    /\ fit.pc = "height"
    /\ IF heightLoopContinues(fit.dpi, fit.font, fit.fontsize, fit.maxHeight,
                              fit.build)
       THEN fit' = [fit EXCEPT !.fontsize = minusSizeDecrease(@, fit.dpi),
                               !.passes = 1 - @]
       ELSE fit' = [fit EXCEPT !.pc = "width", !.heightFitting = fit.fontsize,
                       !.fontsize = widthPhaseStart(fit.initial, fit.fontsize)]
    /\ UNCHANGED <<layout, image, lastCall, calc, race, widget>>

\* one pass through the loop of determineWidthFittingFontsize
WidthFitStep ==
    /\ fit.pc = "width"
    /\ IF widthLoopContinues(fit.dpi, fit.font, fit.fontsize, fit.maxWidth,
                             fit.build)
       THEN fit' = [fit EXCEPT !.fontsize = minusSizeDecrease(@, fit.dpi),
                               !.passes = 1 - @]
       ELSE fit' = [fit EXCEPT !.pc = "measure",
                       !.actualWidth = actualStringWidth(fit.dpi, fit.font,
                                           fit.fontsize, fit.build)]
    /\ UNCHANGED <<layout, image, lastCall, calc, race, widget>>

\* ascent and descent as the height phase measured them last
returnedMetricsSizeOfHeightPhase(heightFittingFontsize, fontsize) ==
    heightFittingFontsize

\* _, ascent, descent := actualStringHeight(float64(dpi), ttFont, fontsize,
\* text): the size the returned ascent and descent are measured at
returnedMetricsSize(heightFittingFontsize, fontsize) == fontsize

\* the closing actualStringHeight call and the return
ReturnFontSize ==
    /\ fit.pc = "measure"
    /\ LET m == actualStringHeight(fit.dpi, fit.font,
                    returnedMetricsSize(fit.heightFitting, fit.fontsize),
                    fit.build)
       IN  fit' = [fit EXCEPT !.pc = "done", !.ascent = m.ascent,
                      !.descent = m.descent]
    /\ UNCHANGED <<layout, image, lastCall, calc, race, widget>>

\* textSegment.draw after maxFontSize has returned: the point handed to
\* DrawString
TextSegmentDraw ==
    /\ fit.pc = "done"
    /\ fit' = [fit EXCEPT !.pc = "drawn",
                  !.x = textOriginX(fit.alignmentX, fit.maxWidth,
                                    fit.actualWidth),
                  !.y = textBaselineY(fit.segmentPositionY, fit.maxHeight,
                                      fit.ascent, fit.descent,
                                      fit.centerVertically)]
    /\ UNCHANGED <<layout, image, lastCall, calc, race, widget>>

NextFont ==
    HeightFitStep \/ WidthFitStep \/ ReturnFontSize \/ TextSegmentDraw

\* the call runs on one goroutine, which always takes its next step
SpecFont == InitFont /\ [][NextFont]_vars /\ WF_vars(NextFont)

-----------------------------------------------------------------------------
(* Two ButtonLayout.CreateImage calls on one layout, statement by statement *)

\* The calls share the layout and its elements.  Each call has its own
\* position in the code, bounds, target image and loop index; the canvas a
\* drawElement call allocates is its own, but e.img, the pointer to it, is
\* a field of the shared element: owner tells whose canvas e.img points to.
Callers == {1, 2}

RaceCanvases == {<<72, 72>>, <<100, 100>>}

\* a layout with an icon and n bars
RECURSIVE WithBars(_, _)
WithBars(l, n) ==
    IF n = 0 THEN l ELSE WithBars(AddPercentageBar(l, 75), n - 1)

RaceMargin(c) == ToUint(c.dy) \div 18

RaceAvailHeight(c) == ToUint(ToUint(c.dy) - ToUint(RaceMargin(c) * 2))

RaceAvailWidth(c) == ToUint(ToUint(c.dx) - ToUint(RaceMargin(c) * 2))

InitRace ==
    /\ layout = NoLayout
    /\ image = NoImage
    /\ lastCall = "none"
    /\ fit = IdleFit
    /\ calc = IdleCalc
    /\ widget = NoWidget
    /\ \E n \in 1 .. 2, b \in [Callers -> RaceCanvases] :
          LET l == WithBars(SetIcon(NewLayout("button", 200)), n)
          IN  race = [on |-> TRUE,
                      l0 |-> l,
                      el |-> [icon |-> l.iconElement[1],
                              info |-> l.infoElement[1]],
                      owner |-> [icon |-> 0, info |-> 0],
                      canvas |-> [p \in Callers |->
                                     [icon |-> <<>>, info |-> <<>>]],
                      call |-> [p \in Callers |->
                                   [pc |-> "enter", cur |-> "icon",
                                    dx |-> b[p][1], dy |-> b[p][2],
                                    rectW |-> 0, rectH |-> 0, y |-> 0,
                                    i |-> 1, draws |-> <<>>]]]

\* the shared layout as the call reads it
RaceLayout ==
    [race.l0 EXCEPT !.iconElement = <<race.el.icon>>,
                    !.infoElement = <<race.el.info>>]

RaceAt(p, pc) == race.on /\ race.call[p].pc = pc

\* CreateImage up to the call of iconElement.drawElement
RaceEnter(p) ==
    /\ RaceAt(p, "enter")
    /\ LET c == race.call[p]
       IN  race' = [race EXCEPT !.call[p] =
               [c EXCEPT !.pc = "reset", !.cur = "icon",
                   !.y = ToInt(RaceMargin(c)),
                   !.rectW = ToInt(RaceAvailWidth(c)),
                   !.rectH = ToInt(calculateIconSize(RaceLayout,
                                 RaceAvailHeight(c), RaceAvailWidth(c)))]]
    /\ UNCHANGED <<layout, image, lastCall, fit, calc, widget>>

\* e.segmentPositionY = 0
RaceResetCursor(p) ==
    /\ RaceAt(p, "reset")
    /\ race' = [race EXCEPT !.el[race.call[p].cur].segmentPositionY = 0,
                            !.call[p].pc = "alloc", !.call[p].i = 1]
    /\ UNCHANGED <<layout, image, lastCall, fit, calc, widget>>

\* e.img = image.NewRGBA(...)
RaceNewCanvas(p) ==
    /\ RaceAt(p, "alloc")
    /\ LET c == race.call[p]
       IN  race' = [race EXCEPT !.el[c.cur].img = NewRGBA(c.rectW, c.rectH),
                               !.owner[c.cur] = p,
                               !.canvas[p][c.cur] = <<>>,
                               !.call[p].pc = "interspace"]
    /\ UNCHANGED <<layout, image, lastCall, fit, calc, widget>>

\* e.calculateSegmentsInterspace()
RaceCalculateInterspace(p) ==
    /\ RaceAt(p, "interspace")
    /\ race' = [race EXCEPT
                   !.el[race.call[p].cur] = calculateSegmentsInterspace(@),
                   !.call[p].pc = "size"]
    /\ UNCHANGED <<layout, image, lastCall, fit, calc, widget>>

\* e.calculateSegmentSize()
RaceCalculateSize(p) ==
    /\ RaceAt(p, "size")
    /\ race' = [race EXCEPT
                   !.el[race.call[p].cur] = calculateSegmentSize(@),
                   !.call[p].pc = "loop"]
    /\ UNCHANGED <<layout, image, lastCall, fit, calc, widget>>

\* the loop head and segment.draw(e): the segment paints into the canvas
\* e.img points to
RaceDrawSegment(p) ==
    /\ RaceAt(p, "loop")
    /\ LET c == race.call[p]
           e == race.el[c.cur]
       IN  IF c.i > Len(e.segments)
           THEN race' = [race EXCEPT !.call[p].pc = "paste"]
           ELSE race' = [race EXCEPT
                    !.canvas[race.owner[c.cur]][c.cur] =
                        Append(@, draw(e.segments[c.i], e)),
                    !.call[p].pc = "incr"]
    /\ UNCHANGED <<layout, image, lastCall, fit, calc, widget>>

\* e.incrementSegmentPositionY()
RaceIncrement(p) ==
    /\ RaceAt(p, "incr")
    /\ race' = [race EXCEPT
                   !.el[race.call[p].cur] = incrementSegmentPositionY(@),
                   !.call[p].i = @ + 1, !.call[p].pc = "loop"]
    /\ UNCHANGED <<layout, image, lastCall, fit, calc, widget>>

\* drawImage(targetImage, e.img, position)
RacePaste(p) ==
    /\ RaceAt(p, "paste")
    /\ LET c == race.call[p]
           e == race.el[c.cur]
       IN  race' = [race EXCEPT
               !.call[p].draws =
                   Append(@, [name |-> c.cur, x |-> ToInt(RaceMargin(c)),
                              y |-> c.y, w |-> e.img.w, h |-> e.img.h,
                              ops |-> race.canvas[race.owner[c.cur]][c.cur]]),
               !.call[p].pc = IF c.cur = "icon" THEN "advance" ELSE "done"]
    /\ UNCHANGED <<layout, image, lastCall, fit, calc, widget>>

\* elementPosition.Y += int(l.iconElement.height() + margin), and
\* CreateImage up to the call of infoElement.drawElement
RaceAdvance(p) ==
    /\ RaceAt(p, "advance")
    /\ LET c == race.call[p]
           positionY == c.y + ToInt(ToUint(height(race.el.icon)
                                             + RaceMargin(c)))
       IN  race' = [race EXCEPT !.call[p] =
               [c EXCEPT !.pc = "reset", !.cur = "info", !.y = positionY,
                   !.rectW = ToInt(RaceAvailWidth(c)),
                   !.rectH = ToInt(ToUint(RaceAvailHeight(c)
                                            - ToUint(positionY)))]]
    /\ UNCHANGED <<layout, image, lastCall, fit, calc, widget>>

NextRace ==
    \E p \in Callers :
        \/ RaceEnter(p)
        \/ RaceResetCursor(p)
        \/ RaceNewCanvas(p)
        \/ RaceCalculateInterspace(p)
        \/ RaceCalculateSize(p)
        \/ RaceDrawSegment(p)
        \/ RaceIncrement(p)
        \/ RacePaste(p)
        \/ RaceAdvance(p)

SpecRace == InitRace /\ [][NextRace]_vars

-----------------------------------------------------------------------------
(* The pure helpers, each applied once to inputs drawn from bounded sets *)

InitCalc ==
    /\ layout = NoLayout
    /\ image = NoImage
    /\ lastCall = "none"
    /\ fit = IdleFit
    /\ race = NoRace
    /\ widget = NoWidget
    /\ \/ \E n \in 1 .. MaxSegments, h \in 0 .. MaxBandHeight :
              calc = [fn |-> "band", in |-> <<n, h>>, pc |-> "call",
                      out |-> <<>>]
       \/ \E n \in 0 .. MaxRatioSegments :
              calc = [fn |-> "ratio", in |-> <<n>>, pc |-> "call",
                      out |-> <<>>]
       \/ \E l \in 0 .. MaxBarLength, t \in 0 .. MaxBarThickness,
             p \in 0 .. MaxPercentage :
              calc = [fn |-> "bar", in |-> <<l, t, p>>, pc |-> "call",
                      out |-> <<>>]

\* An element holding n segments whose canvas has height h
ElementOf(n, h) ==
    [NewWidgetElement(0) EXCEPT
        !.img = NewRGBA(0, h),
        !.segments = [i \in 1 .. n |-> blankSegment]]

\* drawElement's two sizing calls on an element of n segments and height h
CalcBand ==
    /\ calc.fn = "band" /\ calc.pc = "call"
    /\ LET e == calculateSegmentSize(
                    calculateSegmentsInterspace(
                        ElementOf(calc.in[1], calc.in[2])))
       IN calc' = [calc EXCEPT !.pc = "done",
                      !.out = <<e.segmentsInterspace, e.segmentHeight>>]
    /\ UNCHANGED <<layout, image, lastCall, fit, race, widget>>

CalcRatio ==
    /\ calc.fn = "ratio" /\ calc.pc = "call"
    /\ calc' = [calc EXCEPT !.pc = "done",
                    !.out = <<calculateIconSizeRatio(calc.in[1])>>]
    /\ UNCHANGED <<layout, image, lastCall, fit, race, widget>>

CalcBar ==
    /\ calc.fn = "bar" /\ calc.pc = "call"
    /\ calc' = [calc EXCEPT !.pc = "done",
                    !.out = <<createBar(calc.in[1], calc.in[2], calc.in[3])>>]
    /\ UNCHANGED <<layout, image, lastCall, fit, race, widget>>

NextCalc == CalcBand \/ CalcRatio \/ CalcBar

SpecCalc == InitCalc /\ [][NextCalc]_vars

-----------------------------------------------------------------------------
(* Claims about the pure helpers, checked under SpecCalc *)

BandDone == calc.fn = "band" /\ calc.pc = "done"

\* C1: for every element with N >= 1 segments and every height H >= 0 the
\* spacing S and band height B that drawElement computes satisfy
\* B*N + S*(N-1) <= H and S >= 5, and when H < S*(N-1) the band height is
\* zero or negative, never a large positive value.
C1_BandSizeInvariant ==
    BandDone =>
        LET n == calc.in[1]
            h == calc.in[2]
            s == calc.out[1]
            b == calc.out[2]
        IN  /\ b * n + s * (n - 1) <= h
            /\ s >= 5
            /\ (h < s * (n - 1) => ToInt(b) <= 0)

\* C16: for an element of N >= 1 segments drawn into a rectangle of height
\* H the spacing is max(5, H div (3*N)) and the band height is
\* (H - spacing*(N-1)) div N.
C16_BandFormulas ==
    BandDone =>
        LET n == calc.in[1]
            h == calc.in[2]
        IN  /\ calc.out[1] = Max(5, h \div (3 * n))
            /\ calc.out[2] = (h - calc.out[1] * (n - 1)) \div n

RatioDone == calc.fn = "ratio" /\ calc.pc = "done"

\* C6: calculateIconSizeRatio(0) = 1.0, (1) = 0.66, (2) = 0.5, (3) = 0.33;
\* for every n >= 2 the result is the hundredth nearest to 1/n (halves
\* rounded up); for n in 0..3 it equals the switch table of the older
\* createButtonImage.
C6_IconRatioTable ==
    RatioDone =>
        LET n == calc.in[1]
            c == calc.out[1]
        IN  /\ (n = 0 => c = 100)
            /\ (n = 1 => c = 66)
            /\ (n = 2 => c = 50)
            /\ (n = 3 => c = 33)
            /\ (n >= 2 => /\ 2 * (c * n - 100) <= n
                          /\ 2 * (100 - c * n) < n)
            /\ (n <= 3 => c = createButtonImageIconRatio(n))

\* a ratio whose hundredth is rounded up has been computed (1/6 -> 0.17)
C6_Witness == RatioDone /\ calc.in[1] = 6 /\ calc.out[1] = 17

BarDone == calc.fn = "bar" /\ calc.pc = "done"

\* C7: for every bar length L, thickness T and percentage P in 0..100,
\* createBar paints the columns 0 .. floor(L*P/100)-1 white in all T rows
\* and every later column gray within the thinner track zone: the filled
\* width is floor(L*P/100) exactly.
C7_BarFill ==
    BarDone =>
        LET l == calc.in[1]
            t == calc.in[2]
            filled == (calc.in[1] * calc.in[3]) \div 100
            thin == t - (t \div 3)
            yOffset == (t - thin) \div 2
            img == calc.out[1]
        IN  \A x \in 0 .. l - 1, y \in 0 .. t - 1 :
                /\ (x < filled => img[<<x, y>>] = "white")
                /\ (x >= filled /\ y >= yOffset /\ y < yOffset + thin
                        => img[<<x, y>>] = "gray")

-----------------------------------------------------------------------------
(* The font-fit search (under SpecFont) *)

FitDone == fit.pc = "done"

\* the measurements at the minimum step 0.7 fit the box; with measurements
\* non-decreasing in the size, every box in which some size above the
\* minimum step fits is such a box
ViableBox ==
    /\ actualStringWidth(fit.dpi, fit.font, Fin(fit.dpi), fit.build)
           <= fit.maxWidth
    /\ actualStringHeight(fit.dpi, fit.font, Fin(fit.dpi), fit.build).height
           <= fit.maxHeight

\* C3: for a dpi above 0 (where the seed is a size) and a viable box, the
\* size maxFontSize returns measures no wider than maxWidth and no higher
\* than maxHeight.
C3_ResultFits ==
    (FitDone /\ fit.dpi > 0 /\ ViableBox)
        => /\ fit.actualWidth <= fit.maxWidth
           /\ fit.ascent + fit.descent <= fit.maxHeight

\* a viable box in which both phases had to step down
C3_Witness ==
    /\ FitDone /\ fit.dpi > 0 /\ ViableBox
    /\ fit.fontsize.n < fit.heightFitting.n
    /\ fit.heightFitting.n < fit.initial.n

\* the size returned for the box boxWidth x boxHeight, same text, font, dpi
ReturnedFor(boxWidth, boxHeight) ==
    maxFontSize(fit.font, fit.dpi, boxWidth, boxHeight, fit.build)

\* C4 as stated: no box that is no wider and no higher than the given one
\* gets a larger size.
C4_MonotoneInBox ==
    (FitDone /\ fit.dpi > 0)
        => \A boxWidth \in 0 .. fit.maxWidth, boxHeight \in 0 .. fit.maxHeight :
               ReturnedFor(boxWidth, boxHeight).n <= fit.fontsize.n

\* C4: at the same maxHeight, no narrower box gets a larger size.  (A lower
\* box may: its seed puts the visited sizes on another grid.)
C4_MonotoneInWidth ==
    (FitDone /\ fit.dpi > 0)
        => \A boxWidth \in 0 .. fit.maxWidth :
               ReturnedFor(boxWidth, fit.maxHeight).n <= fit.fontsize.n

\* a narrower box of the same height that gets a strictly smaller size
C4_Witness ==
    /\ FitDone /\ fit.dpi > 0
    /\ \E boxWidth \in 0 .. fit.maxWidth :
           ReturnedFor(boxWidth, fit.maxHeight).n < fit.fontsize.n

\* C5: every call of maxFontSize returns.
C5_FontFitTerminates == <>FitDone

\* C5, the reason given: a pass through either loop that goes round again
\* leaves a strictly smaller size.
C5_SizeStrictlyDecreases ==
    [][(fit.pc \in {"height", "width"} /\ fit'.pc = fit.pc)
          => /\ fit.fontsize.k = "fin" /\ fit'.fontsize.k = "fin"
             /\ fit'.fontsize.n < fit.fontsize.n]_vars

-----------------------------------------------------------------------------
(* Concurrent renders (under SpecRace) *)

\* the image the call p would return when it ran alone on the layout
AloneDraws(p) ==
    ButtonLayoutCreateImage(race.l0, race.call[p].dx, race.call[p].dy).img.draws

\* C14: a CreateImage call that runs interleaved with another one on the
\* same layout returns the image it returns when it runs alone.
C14_CallsDoNotInterfere ==
    \A p \in Callers :
        race.call[p].pc = "done" => race.call[p].draws = AloneDraws(p)

-----------------------------------------------------------------------------
(* Text placement (under SpecFont) *)

TextDrawn == fit.pc = "drawn"

\* C18: a text of measured width w <= W in a band of width W is put at
\* x = 0 for alignment -1, (W - w) div 2 for alignment 0 and W - w for any
\* other alignment, and [x, x + w] lies within [0, W].
C18_TextOriginX ==
    (TextDrawn /\ fit.actualWidth <= fit.maxWidth) =>
        /\ fit.x = CASE fit.alignmentX = -1 -> 0
                     [] fit.alignmentX = 0 ->
                            (fit.maxWidth - fit.actualWidth) \div 2
                     [] OTHER -> fit.maxWidth - fit.actualWidth
        /\ 0 <= fit.x
        /\ fit.x + fit.actualWidth <= fit.maxWidth

\* a centred text narrower than its band
C18_Witness ==
    /\ TextDrawn /\ fit.alignmentX = 0
    /\ fit.actualWidth > 0 /\ fit.actualWidth + 2 <= fit.maxWidth
    /\ fit.x > 0

InkTop == fit.y - fit.ascent

InkBottom == fit.y + fit.descent

\* C19: without centring the baseline is bandTop + bandHeight - descent;
\* with centring and ascent + descent <= bandHeight the ink box has its
\* top at bandTop + (bandHeight - (ascent + descent)) div 2 and lies in the
\* band, up to one pixel, in the first band and in the second.
C19_TextBaselineY ==
    TextDrawn =>
        /\ ~fit.centerVertically =>
               fit.y = fit.segmentPositionY + fit.maxHeight - fit.descent
        /\ (fit.centerVertically
               /\ fit.ascent + fit.descent <= fit.maxHeight) =>
               LET top == fit.segmentPositionY
                            + (fit.maxHeight - (fit.ascent + fit.descent))
                                \div 2
               IN  /\ InkTop - top \in -1 .. 1
                   /\ InkTop >= fit.segmentPositionY - 1
                   /\ InkBottom <= fit.segmentPositionY + fit.maxHeight

\* a centred text with a descender, lower than its band, in the second
\* band
C19_Witness ==
    /\ TextDrawn /\ fit.centerVertically
    /\ fit.segmentPositionY > 0
    /\ fit.descent > 0 /\ fit.ascent > 0
    /\ fit.ascent + fit.descent + 2 <= fit.maxHeight

-----------------------------------------------------------------------------
(* The two regions of a ButtonLayout, checked under Spec *)

\* C21: in ButtonLayout.CreateImage with icon and info present the info
\* element is placed margin pixels below the icon element and receives the
\* whole remaining height: iconHeight + margin + infoHeight =
\* availableHeight, the info element's bottom edge is at canvasHeight -
\* margin, and the subtraction that yields infoHeight does not go below
\* zero.
C21_TwoRegionsFillHeight ==
    (Rendered /\ layout.kind = "button" /\ layout.iconElement # Nil
        /\ layout.infoElement # Nil)
    => LET icon == DrawOf("icon")
           info == DrawOf("info")
       IN  /\ info.y = icon.y + icon.h + CanvasMargin
           /\ icon.h + CanvasMargin + info.h = AvailableHeight
           /\ info.y + info.h = image.h - CanvasMargin
           /\ AvailableHeight - (info.y - CanvasMargin) >= 0

-----------------------------------------------------------------------------
(* Phases of the font-fit search, checked under SpecFont *)

\* a > b for two sizes, as float64 compares them: NaN is not greater than
\* anything, +Inf is greater than every finite size
SizeGreater(a, b) ==
    CASE a.k = "fin" /\ b.k = "fin" -> a.n > b.n
      [] a.k = "inf" /\ b.k = "fin" -> TRUE
      [] OTHER -> FALSE

\* C22: maxFontSize runs the height phase to its end before the width
\* phase, the width phase starts at the height-fit result, every pass that
\* goes round again in either phase finds the size above the minimum 0.7
\* and lowers it by the step 0.7, the final size is not above the
\* height-fit size nor that above the seed, and the returned width, ascent
\* and descent are the measurements at the returned size.
C22_PhasesAndReturnedMetrics ==
    [][/\ fit.pc = "height" => fit'.pc \in {"height", "width"}
       /\ fit.pc = "width" =>
              /\ fit'.pc \in {"width", "measure"}
              /\ fit'.heightFitting = fit.heightFitting
       /\ (fit.pc = "height" /\ fit'.pc = "width") =>
              /\ fit'.heightFitting = fit.fontsize
              /\ fit'.fontsize = fit.fontsize
       /\ (fit.pc \in {"height", "width"} /\ fit'.pc = fit.pc
              /\ fit.fontsize.k = "fin") =>
              /\ fit.fontsize.n > fit.dpi
              /\ fit'.fontsize = Fin(fit.fontsize.n - fit.dpi)
       /\ (fit.pc = "measure" /\ fit'.pc = "done") =>
              /\ fit'.fontsize = fit.fontsize
              /\ ~SizeGreater(fit'.fontsize, fit'.heightFitting)
              /\ ~SizeGreater(fit'.heightFitting, fit'.initial)
              /\ fit'.actualWidth =
                     actualStringWidth(fit.dpi, fit.font, fit'.fontsize,
                                       fit.build)
              /\ fit'.ascent =
                     actualStringHeight(fit.dpi, fit.font, fit'.fontsize,
                                        fit.build).ascent
              /\ fit'.descent =
                     actualStringHeight(fit.dpi, fit.font, fit'.fontsize,
                                        fit.build).descent]_vars

\* a call that returned after both phases stepped down, where the text
\* measured higher at the height-fit size than at the returned one
C22_Witness ==
    /\ FitDone /\ fit.dpi > 0
    /\ SizeGreater(fit.heightFitting, fit.fontsize)
    /\ SizeGreater(fit.initial, fit.heightFitting)
    /\ actualStringHeight(fit.dpi, fit.font, fit.heightFitting,
                          fit.build).ascent > fit.ascent

-----------------------------------------------------------------------------
(* Effect of the builder calls, checked under Spec *)

\* the segments of the element a slot points to, none for an absent one
SlotSegments(l, slot) == IF l[slot] = Nil THEN <<>> ELSE l[slot][1].segments

Slots == {"iconElement", "labelElement", "infoElement"}

\* the call replaced the slot by a fresh element of one segment of the kind
SlotReplaced(slot, kind) ==
    /\ layout'[slot] # Nil
    /\ Len(SlotSegments(layout', slot)) = 1
    /\ SlotSegments(layout', slot)[1].kind = kind
    /\ layout'[slot][1].segmentPositionY = 0
    /\ layout'[slot][1].img = NoImg
    /\ \A other \in Slots \ {slot} : layout'[other] = layout[other]

\* the call appended one segment of the kind to the info element
InfoAppended(kind) ==
    LET before == SlotSegments(layout, "infoElement")
        after == SlotSegments(layout', "infoElement")
    IN  /\ layout'.infoElement # Nil
        /\ Len(after) = Len(before) + 1
        /\ SubSeq(after, 1, Len(before)) = before
        /\ after[Len(after)].kind = kind
        /\ \A other \in Slots \ {"infoElement"} :
               layout'[other] = layout[other]

\* C23: every slot is absent until its first setter or adder call; SetIcon
\* and SetLabel replace their slot by a fresh element of exactly one
\* segment; AddText, AddPercentageBar and AddBlank append exactly one
\* segment to the end of the info element and keep the earlier ones in
\* their order; each call leaves the other slots as they are.
C23_BuilderCallEffects ==
    /\ \A slot \in Slots : layout[slot] = Nil
    /\ [][/\ \A slot \in Slots :
                (layout[slot] = Nil /\ layout'[slot] # Nil) =>
                    lastCall' \in (CASE slot = "iconElement" -> {"SetIcon"}
                                     [] slot = "labelElement" -> {"SetLabel"}
                                     [] OTHER -> {"AddText", "AddPercentageBar",
                                                  "AddBlank"})
          /\ lastCall' = "SetIcon" => SlotReplaced("iconElement", "icon")
          /\ lastCall' = "SetLabel" => SlotReplaced("labelElement", "text")
          /\ lastCall' = "AddText" => InfoAppended("text")
          /\ lastCall' = "AddPercentageBar" => InfoAppended("bar")
          /\ lastCall' = "AddBlank" => InfoAppended("blank")]_vars

\* a blank appended as third segment behind a bar and a text, in a layout
\* whose icon element was set anew after a render and whose label is set
C23_Witness ==
    /\ lastCall = "AddBlank"
    /\ layout.iconElement # Nil /\ layout.labelElement # Nil
    /\ layout.iconElement[1].img = NoImg
    /\ layout.labelElement[1].img # NoImg
    /\ Len(SlotSegments(layout, "infoElement")) = 3
    /\ SlotSegments(layout, "infoElement")[1].kind = "bar"
    /\ SlotSegments(layout, "infoElement")[2].kind = "text"

-----------------------------------------------------------------------------
(* Elements and their segments, checked under Spec *)

\* C24: after any sequence of builder calls every element slot that is not
\* nil holds at least one segment, so every element CreateImage draws has
\* N >= 1 segments and neither the division by 3*N nor the one by N
\* divides by zero.
C24_NoEmptyElement ==
    /\ \A slot \in Slots :
          layout[slot] # Nil => numberOfSegments(layout[slot][1]) >= 1
    /\ \A i \in DOMAIN image.draws : Len(image.draws[i].ops) >= 1

\* a render of a layout whose info element holds nothing but one blank
\* segment, next to an icon
C24_Witness ==
    /\ Rendered /\ HasDraw("icon") /\ HasDraw("info")
    /\ Len(DrawOf("info").ops) = 1
    /\ DrawOf("info").ops[1].kind = "blank"
    /\ numberOfSegments(layout.infoElement[1]) = 1


\* C25: whenever the info element of a layout with DPI d > 0 contains a
\* text segment, the element's dpi field equals d, whatever the order of
\* the Add calls, so the seed of the font fit of a band of height 1 or
\* more is finite.
C25_InfoDpiIsLayoutDpi ==
    (layout.dpi > 0 /\ layout.infoElement # Nil
        /\ \E i \in DOMAIN layout.infoElement[1].segments :
               layout.infoElement[1].segments[i].kind = "text")
    => /\ layout.infoElement[1].dpi = layout.dpi
       /\ initialFontsize(layout.infoElement[1].dpi, 1, 1).k = "fin"

-----------------------------------------------------------------------------
(* Unsigned arithmetic of the layout geometry, checked under Spec *)

\* C26: for every canvas of width W >= 0 and height H >= 0, CreateImage of
\* both layouts computes an available width W - 2*(H div 18) <= W and an
\* available height H - 2*(H div 18) <= H, and every element rectangle it
\* derives is no wider than W and no higher than H: nothing wraps around.
C26_NoWraparound ==
    Rendered =>
        /\ AvailableWidth <= image.w
        /\ ToUint(image.h - 2 * CanvasMargin) <= image.h
        /\ \A i \in DOMAIN image.draws :
               /\ image.draws[i].w <= image.w
               /\ image.draws[i].h <= image.h

-----------------------------------------------------------------------------
(* BrightnessWidget: repaint requests *)

\* the values of the global brightness setting, in percent
DeviceBrightnesses == {0, 30, 80, 100}

\* getBrightness(): uint8(*brightness)
getBrightness(device) == device % 256

\* w.brightness left as it was
refreshBrightnessValueKeeping(w) == w

\* w.brightness = getBrightness()
refreshBrightnessValue(w) == [w EXCEPT !.brightness = getBrightness(w.device)]

\* (w.showBar || w.showPercentage) && w.brightness != getBrightness()
brightnessRequiresUpdate(w) ==
    (w.showBar \/ w.showPercentage) /\ w.brightness # getBrightness(w.device)

\* NewBrightnessWidget, with the global brightness as the widget's
\* environment; op is the latest operation, result what the latest
\* RequiresUpdate returned
InitBrightness ==
    /\ layout = NoLayout
    /\ image = NoImage
    /\ lastCall = "none"
    /\ fit = IdleFit
    /\ calc = IdleCalc
    /\ race = NoRace
    /\ \E device \in DeviceBrightnesses, showBar \in BOOLEAN,
          showPercentage \in BOOLEAN :
            widget = [kind |-> "brightness", device |-> device,
                      brightness |-> getBrightness(device),
                      showBar |-> showBar, showPercentage |-> showPercentage,
                      op |-> "new", result |-> FALSE]

\* RequiresUpdate(); base is what w.BaseWidget.RequiresUpdate() returns
BrightnessRequiresUpdate ==
    /\ widget.kind = "brightness"
    /\ \E base \in BOOLEAN :
          widget' = [widget EXCEPT
                        !.op = "RequiresUpdate",
                        !.result = IF brightnessRequiresUpdate(widget)
                                   THEN TRUE ELSE base]
    /\ UNCHANGED <<layout, image, lastCall, fit, calc, race>>

\* Update(): the stored value is refreshed before the widget is rendered
BrightnessUpdate ==
    /\ widget.kind = "brightness"
    /\ widget' = [refreshBrightnessValue(widget) EXCEPT !.op = "Update"]
    /\ UNCHANGED <<layout, image, lastCall, fit, calc, race>>

\* the brightness setting is changed, by a key or by another widget
BrightnessChange ==
    /\ widget.kind = "brightness"
    /\ \E device \in DeviceBrightnesses \ {widget.device} :
          widget' = [widget EXCEPT !.op = "change", !.device = device]
    /\ UNCHANGED <<layout, image, lastCall, fit, calc, race>>

NextBrightness ==
    \/ BrightnessRequiresUpdate
    \/ BrightnessUpdate
    \/ BrightnessChange

SpecBrightness == InitBrightness /\ [][NextBrightness]_vars

\* the bar or the percentage is shown
ShowsBrightness == widget.showBar \/ widget.showPercentage

\* the stored brightness differs from the current one
BrightnessDiffers == widget.brightness # getBrightness(widget.device)

\* what both statements of C27 share: with bar or percentage shown
\* RequiresUpdate returns true whenever the stored brightness differs from
\* the current one; every Update stores the current brightness; only
\* Update changes the stored value, so that equal values stay equal until
\* the brightness changes
RepaintRequestAndUpdate ==
    /\ (widget'.op = "RequiresUpdate" /\ ShowsBrightness /\ BrightnessDiffers)
           => widget'.result
    /\ widget'.op = "Update" =>
           /\ widget'.brightness = getBrightness(widget.device)
           /\ ~BrightnessDiffers'
    /\ widget'.op # "Update" => widget'.brightness = widget.brightness
    /\ (~BrightnessDiffers /\ widget'.device = widget.device)
           => ~BrightnessDiffers'

\* C27 as stated: ... and once the brightness differs from the stored
\* value, it goes on to differ (RequiresUpdate goes on to return true)
\* until the next Update.
C27_DiffersUntilUpdate ==
    [][/\ RepaintRequestAndUpdate
       /\ (ShowsBrightness /\ BrightnessDiffers /\ widget'.op # "Update")
           => BrightnessDiffers']_vars

\* C27: ... and once the brightness differs from the stored value, it goes
\* on to differ until the next Update or until the brightness is changed
\* back to the stored value.
C27_DiffersUntilUpdateOrChangedBack ==
    [][/\ RepaintRequestAndUpdate
       /\ (ShowsBrightness /\ BrightnessDiffers /\ widget'.op # "Update"
              /\ getBrightness(widget'.device) # widget.brightness)
           => BrightnessDiffers']_vars

\* RequiresUpdate has returned true for a widget that shows only the bar
\* and whose stored brightness is not the current one
C27_Witness ==
    /\ widget.kind = "brightness" /\ widget.op = "RequiresUpdate"
    /\ widget.showBar /\ ~widget.showPercentage
    /\ BrightnessDiffers /\ widget.result

-----------------------------------------------------------------------------
(* PulseAudioControlWidget: update flag, icon choice, command dispatch *)

\* what getSinkInputDataForApp returns: an error, no sink input (nil), or
\* the sink input of the application, playing or muted
SinkOutcomes == {"error", "none", "playing", "muted"}

\* the configured mode: the three known ones and any other string
Modes == {"mute", "up", "down", "other"}

\* sinkInputData != nil
sinkFound(sink) == sink \in {"playing", "muted"}

\* the application icon shown for a muted sink input as well
showAppIconIgnoringMute(w, sink) ==
    w.useAppIcon /\ ~w.failingAppIcon /\ sinkFound(sink)

\* w.useAppIcon && !w.failingAppIcon && sinkInputData != nil &&
\* !sinkInputData.muted
showAppIcon(w, sink) ==
    w.useAppIcon /\ ~w.failingAppIcon /\ sinkFound(sink) /\ sink # "muted"

getIconName(sink) ==
    IF ~sinkFound(sink) THEN "not_playing"
    ELSE IF sink = "muted" THEN "muted" ELSE "playing"

\* getIcon without the assignment w.failingAppIcon = true
getIconWithoutLatch(w, sink, available) ==
    IF showAppIcon(w, sink) /\ available
    THEN [w |-> w, icon |-> "app", queried |-> TRUE]
    ELSE [w |-> w, icon |-> getIconName(sink),
          queried |-> showAppIcon(w, sink)]

\* getIcon(sinkInputData): the widget as the call leaves it, the icon it
\* returns and whether it called xorg.getIconFromWindow; available says
\* whether that call yields an image
getIcon(w, sink, available) ==
    IF showAppIcon(w, sink)
    THEN IF available
         THEN [w |-> w, icon |-> "app", queried |-> TRUE]
         ELSE [w |-> [w EXCEPT !.failingAppIcon = TRUE],
               icon |-> getIconName(sink), queried |-> TRUE]
    ELSE [w |-> w, icon |-> getIconName(sink), queried |-> FALSE]

\* the switch of TriggerAction on w.mode
commandOfMode(mode) ==
    CASE mode = "mute" -> <<"toggleMute">>
      [] mode = "up" -> <<"volumeUp">>
      [] mode = "down" -> <<"volumeDown">>
      [] OTHER -> <<>>

\* the commands TriggerAction runs after the lookup
commandsOfTriggerAction(sink, mode) ==
    IF sink = "error" THEN <<>>
    ELSE IF sink = "none" THEN <<>>
    ELSE commandOfMode(mode)

\* a read lock handed out whatever the state of the mutex
rlockAdmitsAlways(w) == TRUE

\* w.updateMutex.RLock() returns only while no writer holds the mutex
rlockAdmits(w) == ~w.writer

\* w.updateMutex.Lock() returns only while nobody holds the mutex
lockAdmits(w) == ~w.writer /\ w.readers = 0

\* NewPulseAudioControlWidget.  tpc is the position of the goroutine that
\* handles key presses, upc that of the goroutine that polls and repaints;
\* iconAvailable is whether the application's window has an icon now.
InitPulseAudio ==
    /\ layout = NoLayout
    /\ image = NoImage
    /\ lastCall = "none"
    /\ fit = IdleFit
    /\ calc = IdleCalc
    /\ race = NoRace
    /\ \E mode \in Modes, useAppIcon \in BOOLEAN, iconAvailable \in BOOLEAN :
          widget = [kind |-> "pulseaudio", mode |-> mode,
                    useAppIcon |-> useAppIcon, update |-> FALSE,
                    failingAppIcon |-> FALSE,
                    writer |-> FALSE, readers |-> 0,
                    tpc |-> "idle", tsink |-> "unset", commands |-> <<>>,
                    triggered |-> FALSE,
                    upc |-> "idle", flagRead |-> FALSE, result |-> FALSE,
                    afterTrigger |-> FALSE,
                    usink |-> "unset", queried |-> FALSE, icon |-> "unset",
                    iconAvailable |-> iconAvailable]

PulseAudio == widget.kind = "pulseaudio"

\* TriggerAction: w.updateMutex.Lock()
TriggerActionLock ==
    /\ PulseAudio /\ widget.tpc = "idle" /\ lockAdmits(widget)
    /\ widget' = [widget EXCEPT !.writer = TRUE, !.tpc = "locked",
                     !.tsink = "unset", !.commands = <<>>]
    /\ UNCHANGED <<layout, image, lastCall, fit, calc, race>>

\* w.update = true
TriggerActionSetUpdate ==
    /\ PulseAudio /\ widget.tpc = "locked"
    /\ widget' = [widget EXCEPT !.update = TRUE, !.tpc = "flagged"]
    /\ UNCHANGED <<layout, image, lastCall, fit, calc, race>>

\* sinkInputData, err := getSinkInputDataForApp(w.appName)
TriggerActionLookup ==
    /\ PulseAudio /\ widget.tpc = "flagged"
    /\ \E sink \in SinkOutcomes :
          widget' = [widget EXCEPT !.tsink = sink, !.tpc = "looked"]
    /\ UNCHANGED <<layout, image, lastCall, fit, calc, race>>

\* the two early returns and the switch on w.mode
TriggerActionDispatch ==
    /\ PulseAudio /\ widget.tpc = "looked"
    /\ widget' = [widget EXCEPT
                     !.commands = commandsOfTriggerAction(widget.tsink,
                                                          widget.mode),
                     !.tpc = "dispatched"]
    /\ UNCHANGED <<layout, image, lastCall, fit, calc, race>>

\* the deferred w.updateMutex.Unlock() and the return
TriggerActionUnlock ==
    /\ PulseAudio /\ widget.tpc = "dispatched"
    /\ widget' = [widget EXCEPT !.writer = FALSE, !.tpc = "idle",
                     !.triggered = TRUE]
    /\ UNCHANGED <<layout, image, lastCall, fit, calc, race>>

\* RequiresUpdate -> updateRequired: w.updateMutex.RLock(); afterTrigger
\* records whether a TriggerAction call had returned when this call began
UpdateRequiredRLock ==
    /\ PulseAudio /\ widget.upc \in {"idle", "returned"}
    /\ rlockAdmits(widget)
    /\ widget' = [widget EXCEPT !.readers = @ + 1, !.upc = "rlocked",
                     !.afterTrigger = widget.triggered]
    /\ UNCHANGED <<layout, image, lastCall, fit, calc, race>>

\* return w.update: the flag is read
UpdateRequiredRead ==
    /\ PulseAudio /\ widget.upc = "rlocked"
    /\ widget' = [widget EXCEPT !.flagRead = widget.update, !.upc = "read"]
    /\ UNCHANGED <<layout, image, lastCall, fit, calc, race>>

\* the deferred w.updateMutex.RUnlock()
UpdateRequiredRUnlock ==
    /\ PulseAudio /\ widget.upc = "read"
    /\ widget' = [widget EXCEPT !.readers = @ - 1, !.upc = "runlocked"]
    /\ UNCHANGED <<layout, image, lastCall, fit, calc, race>>

\* return w.updateRequired() || w.BaseWidget.RequiresUpdate(); base is
\* what the BaseWidget returns
RequiresUpdateReturn ==
    /\ PulseAudio /\ widget.upc = "runlocked"
    /\ \E base \in BOOLEAN :
          widget' = [widget EXCEPT !.result = widget.flagRead \/ base,
                        !.upc = "returned"]
    /\ UNCHANGED <<layout, image, lastCall, fit, calc, race>>

\* Update: the lookup; an error returns at once
UpdateLookup ==
    /\ PulseAudio /\ widget.upc \in {"idle", "returned"}
    /\ \E sink \in SinkOutcomes :
          widget' = [widget EXCEPT !.usink = sink,
                        !.upc = IF sink = "error" THEN "idle" ELSE "icon"]
    /\ UNCHANGED <<layout, image, lastCall, fit, calc, race>>

\* Update: iconImage := w.getIcon(sinkInputData), and the rest of Update,
\* which sets image and label and renders
UpdateGetIcon ==
    /\ PulseAudio /\ widget.upc = "icon"
    /\ LET r == getIcon(widget, widget.usink, widget.iconAvailable)
       IN  widget' = [r.w EXCEPT !.icon = r.icon, !.queried = r.queried,
                         !.upc = "idle"]
    /\ UNCHANGED <<layout, image, lastCall, fit, calc, race>>

\* the application's window gains or loses its icon
WindowIconChange ==
    /\ PulseAudio
    /\ widget' = [widget EXCEPT !.iconAvailable = ~@]
    /\ UNCHANGED <<layout, image, lastCall, fit, calc, race>>

NextPulseAudio ==
    \/ TriggerActionLock
    \/ TriggerActionSetUpdate
    \/ TriggerActionLookup
    \/ TriggerActionDispatch
    \/ TriggerActionUnlock
    \/ UpdateRequiredRLock
    \/ UpdateRequiredRead
    \/ UpdateRequiredRUnlock
    \/ RequiresUpdateReturn
    \/ UpdateLookup
    \/ UpdateGetIcon
    \/ WindowIconChange

SpecPulseAudio == InitPulseAudio /\ [][NextPulseAudio]_vars

-----------------------------------------------------------------------------
(* Claims about the PulseAudioControlWidget, checked under SpecPulseAudio *)

\* TriggerAction is between its Lock and its Unlock
TriggerActionHoldsLock ==
    widget.tpc \in {"locked", "flagged", "looked", "dispatched"}

\* the TriggerAction call returns in this step
TriggerActionReturns == widget.tpc = "dispatched" /\ widget'.tpc = "idle"

\* C28: TriggerAction sets the update flag under the write lock on every
\* call, whatever the lookup yields and whatever the mode; nothing resets
\* the flag, so every RequiresUpdate call begun after the first
\* TriggerAction has returned returns true; updateRequired reads the flag
\* under the read lock and never while TriggerAction holds the write lock.
C28_UpdateFlag ==
    /\ [](/\ TriggerActionHoldsLock => widget.writer /\ widget.readers = 0
          /\ widget.upc \in {"rlocked", "read"} =>
                 widget.readers > 0 /\ ~widget.writer
          /\ widget.triggered => widget.update)
    /\ [][/\ widget.update => widget'.update
          /\ widget'.update # widget.update =>
                 widget.tpc = "locked" /\ widget.writer
          /\ TriggerActionReturns => widget'.update /\ widget'.triggered
          /\ widget'.flagRead # widget.flagRead =>
                 widget.upc = "rlocked" /\ ~TriggerActionHoldsLock
          /\ (widget.upc = "rlocked" /\ widget'.upc = "read") =>
                 widget'.flagRead = widget.update
          /\ (widget.upc = "runlocked" /\ widget'.upc = "returned"
                 /\ widget.afterTrigger) => widget'.result]_vars

\* a RequiresUpdate call, begun after a TriggerAction whose lookup failed
\* had returned, has returned true, in a widget of unknown mode that has
\* been updated
C28_Witness ==
    /\ PulseAudio /\ widget.upc = "returned" /\ widget.afterTrigger
    /\ widget.result /\ widget.tpc = "idle" /\ widget.tsink = "error"
    /\ widget.mode = "other" /\ widget.icon # "unset"

\* getIcon returns in this step
GetIconReturns == widget.upc = "icon" /\ widget'.upc # "icon"

AssetIcons == {"not_playing", "muted", "playing"}

\* C29: failingAppIcon starts false, becomes true the first time the
\* window icon cannot be obtained and is never reset; in every later
\* Update the widget does not query the window icon and uses the asset
\* icon, also when the window has an icon again.
C29_AppIconLatch ==
    /\ ~widget.failingAppIcon
    /\ [][/\ widget.failingAppIcon => widget'.failingAppIcon
          /\ (~widget.failingAppIcon /\ widget'.failingAppIcon) =>
                 GetIconReturns /\ widget'.queried /\ ~widget.iconAvailable
          /\ (GetIconReturns /\ widget'.queried /\ ~widget.iconAvailable) =>
                 widget'.failingAppIcon
          /\ (GetIconReturns /\ widget.failingAppIcon) =>
                 ~widget'.queried /\ widget'.icon \in AssetIcons]_vars

\* an Update that used the asset icon for a playing sink input without
\* querying the window, which has an icon by now, after an earlier failure
C29_Witness ==
    /\ PulseAudio /\ widget.upc = "idle" /\ widget.useAppIcon
    /\ widget.failingAppIcon /\ widget.iconAvailable
    /\ widget.usink = "playing" /\ ~widget.queried /\ widget.icon = "playing"

\* C30: the window icon is requested only when useAppIcon is set,
\* failingAppIcon is false, a sink input was found and it is not muted;
\* otherwise the asset icon is not_playing without sink input, muted for a
\* muted one and playing otherwise.  TriggerAction issues exactly one
\* command, the one of its mode (mute, up, down), when the lookup found a
\* sink input, and none when it failed, found none or the mode is unknown.
C30_IconChoiceAndDispatch ==
    [][/\ GetIconReturns =>
              /\ widget'.queried <=>
                     (widget.useAppIcon /\ ~widget.failingAppIcon
                        /\ widget.usink \in {"playing", "muted"}
                        /\ widget.usink # "muted")
              /\ ~widget'.queried =>
                     widget'.icon =
                         (CASE widget.usink = "none" -> "not_playing"
                            [] widget.usink = "muted" -> "muted"
                            [] OTHER -> "playing")
       /\ TriggerActionReturns =>
              /\ widget'.commands = widget.commands
              /\ widget.commands =
                     (IF widget.tsink \in {"playing", "muted"}
                      THEN CASE widget.mode = "mute" -> <<"toggleMute">>
                             [] widget.mode = "up" -> <<"volumeUp">>
                             [] widget.mode = "down" -> <<"volumeDown">>
                             [] OTHER -> <<>>
                      ELSE <<>>)
       /\ widget'.commands # widget.commands =>
              widget.tpc \in {"idle", "looked"}]_vars

\* a TriggerAction in mode up has run volumeUp on a muted sink input, and
\* an Update has shown the asset icon for a muted sink input although the
\* application icon is wanted and available
C30_Witness ==
    /\ PulseAudio /\ widget.tpc = "idle" /\ widget.triggered
    /\ widget.mode = "up" /\ widget.tsink = "muted"
    /\ widget.commands = <<"volumeUp">>
    /\ widget.upc = "idle" /\ widget.usink = "muted"
    /\ widget.useAppIcon /\ ~widget.failingAppIcon /\ widget.iconAvailable
    /\ ~widget.queried /\ widget.icon = "muted"

=============================================================================
